---- MODULE Spec2Model ----
(***************************************************************************)
(* A model of the metabase-mcp server: the collection discovery tool       *)
(* (find_candidate_collections), the scoped card search tool               *)
(* (search_cards_in_collections) and the request gateway                   *)
(* (MetabaseClient) they call.                                             *)
(*                                                                         *)
(* Text is a sequence of one-character strings, so that lower(), strip(),  *)
(* the substring test and the ordering of keys are computed, not assumed.  *)
(* Python's None is NoneText for a text field and "None" for an id field.  *)
(***************************************************************************)
EXTENDS Integers, Sequences, FiniteSets

VARIABLES
    collections,   \* upstream: the payload GET /collection answers with
    fpc,           \* find_candidate_collections: "idle" | "fetching" | "done"
    fquery,        \* its argument query
    flimit,        \* its argument limit_collections
    fmatched,      \* its local matched_collections as the filter loop left it
    fresult,       \* what the call gave its caller: returned body or raised error
    flog,          \* how its request ended: "none" | "ok" | the failure raised
    freq,          \* the requests the call has issued, in order
    cards,         \* upstream: the payload GET /card answers with
    spc,           \* search_cards_in_collections: "idle" | "fetching" | "done"
    sargs,         \* its arguments query, collection_ids, limit, offset
    sidx,          \* position in collection_ids of the fetch in flight
    smatches,      \* its local all_matches
    slog,          \* how the fetch for each position so far ended: "ok" | "failed"
    sresult,       \* what the call gave its caller
    sreq,          \* the requests the call has issued, in order
    lpc,           \* list_cards_paginated: "idle" | "fetching" | "done"
    largs,         \* its arguments limit, offset, filter_type
    lresult,       \* what the call gave its caller
    lreq,          \* the requests the call has issued, in order
    uchanged,      \* upstream: whether its data has changed since the start
    config,        \* the environment: METABASE_API_KEY, and whether
                   \* METABASE_USER_EMAIL and METABASE_PASSWORD are set
    phase,         \* "running", or "startup_failed" when the import raised
    session_token, \* MetabaseClient.session_token
    gpc,           \* per task in MetabaseClient.request: "idle" | "login" | "api" | "done"
    gsent,         \* per task: the credential header of the API request it sent
    gout,          \* per task: what request() gave its caller
    gcall          \* per task: the call of request(), what the HTTP client gave
                   \* it, and how many logins and API requests it has issued

fvars == <<collections, fpc, fquery, flimit, fmatched, fresult, flog, freq>>
svars == <<cards, spc, sargs, sidx, smatches, slog, sresult, sreq>>
lvars == <<lpc, largs, lresult, lreq>>
gvars == <<config, phase, session_token, gpc, gsent, gout, gcall>>
vars == <<fvars, svars, lvars, gvars, uchanged>>

-----------------------------------------------------------------------------
(* Bounds of the model.                                                    *)

\* Longest upstream collection list.
MaxColls == 3

\* Longest upstream card list.
MaxCards == 2

\* Longest collection_ids argument.
MaxIds == 2

\* Largest limit and offset argument.
MaxPage == 2

\* Number of tool calls that may be inside MetabaseClient.request at once.
NumTasks == 2

-----------------------------------------------------------------------------
(* Text: Python str operations.                                            *)

NoneText == <<"None">>

\* ord(c) for the characters the model uses.
Ord(c) ==
    CASE c = " " -> 32
      [] c = "1" -> 49
      [] c = "2" -> 50
      [] c = "A" -> 65
      [] c = "B" -> 66
      [] c = "a" -> 97
      [] c = "b" -> 98

\* str.lower() on one character.
LowerChar(c) ==
    CASE c = "A" -> "a"
      [] c = "B" -> "b"
      [] OTHER -> c

\* str.lower()
Lower(s) == [i \in 1..Len(s) |-> LowerChar(s[i])]

IsSpace(c) == c = " "

RECURSIVE LStrip(_)
LStrip(s) ==
    IF s = <<>> THEN <<>>
    ELSE IF IsSpace(Head(s)) THEN LStrip(Tail(s)) ELSE s

RECURSIVE RStrip(_)
RStrip(s) ==
    IF s = <<>> THEN <<>>
    ELSE IF IsSpace(s[Len(s)]) THEN RStrip(SubSeq(s, 1, Len(s) - 1)) ELSE s

\* str.strip()
Strip(s) == RStrip(LStrip(s))

\* Python's `a in b` for two str values.
Contains(b, a) ==
    \E i \in 0..(Len(b) - Len(a)) : SubSeq(b, i + 1, i + Len(a)) = a

\* Python's `a < b` for two str values: lexicographic by code point.
RECURSIVE StrLess(_, _)
StrLess(a, b) ==
    IF b = <<>> THEN FALSE
    ELSE IF a = <<>> THEN TRUE
    ELSE IF Ord(Head(a)) < Ord(Head(b)) THEN TRUE
    ELSE IF Ord(Head(a)) > Ord(Head(b)) THEN FALSE
    ELSE StrLess(Tail(a), Tail(b))

\* Python's `x or ""` for a text field that may be None.
OrEmpty(s) == IF s = NoneText THEN <<>> ELSE s

-----------------------------------------------------------------------------
(* Lists: Python slicing and the stable list.sort().                       *)

\* A slice index as Python clamps it for a list of length n.
ClampIndex(i, n) ==
    IF i < 0 THEN (IF i + n < 0 THEN 0 ELSE i + n)
    ELSE (IF i > n THEN n ELSE i)

\* seq[start:stop]
PySlice(seq, start, stop) ==
    LET s == ClampIndex(start, Len(seq))
        e == ClampIndex(stop, Len(seq))
    IN  IF s < e THEN SubSeq(seq, s + 1, e) ELSE <<>>

\* Whether key a sorts strictly before key b (after it when reversed).
KeyBefore(a, b, reverse) == IF reverse THEN StrLess(b, a) ELSE StrLess(a, b)

\* list.sort(key=...) computes each element's key once and orders the
\* [key, item] pairs. Insert x into the sorted list behind every element whose key does not sort
\* after x's key: list.sort() is stable, also with reverse=True.
RECURSIVE InsertStable(_, _, _)
InsertStable(sorted, x, reverse) ==
    IF sorted = <<>> THEN <<x>>
    ELSE IF KeyBefore(x.key, Head(sorted).key, reverse) THEN <<x>> \o sorted
    ELSE <<Head(sorted)>> \o InsertStable(Tail(sorted), x, reverse)

RECURSIVE SortKeyed(_, _)
SortKeyed(keyed, reverse) ==
    IF keyed = <<>> THEN <<>>
    ELSE InsertStable(SortKeyed(SubSeq(keyed, 1, Len(keyed) - 1), reverse),
                      keyed[Len(keyed)], reverse)

\* The elements of a sorted list of [key, item] pairs.
Items(keyed) == [i \in 1..Len(keyed) |-> keyed[i].item]

-----------------------------------------------------------------------------
(* Upstream data.                                                          *)

\* An entry of the GET /collection list: null, an empty object, or a
\* collection object.
NullEntry == [kind |-> "null"]
EmptyEntry == [kind |-> "empty"]

Coll(name, description, archived) ==
    [kind |-> "obj", id |-> 0, name |-> name, description |-> description,
     parent_id |-> "None", archived |-> archived]

EntryPool ==
    { NullEntry, EmptyEntry,
      Coll(<<"A", "b">>, NoneText, FALSE),
      Coll(<<"b">>, <<"A">>, FALSE),
      Coll(NoneText, <<"a", "B">>, FALSE),
      Coll(<<"B">>, <<>>, TRUE),
      Coll(<<"a">>, NoneText, FALSE),
      Coll(<<"A">>, NoneText, FALSE) }

\* The lists of at most n entries of the pool.
RECURSIVE ListsUpTo(_, _)
ListsUpTo(pool, n) ==
    IF n = 0 THEN {<<>>}
    ELSE LET shorter == ListsUpTo(pool, n - 1)
         IN  shorter \cup {Append(l, e) : l \in {x \in shorter : Len(x) = n - 1}, e \in pool}

\* Collection objects carry their position in the list as their id.
WithIds(list) ==
    [i \in 1..Len(list) |->
        IF list[i].kind = "obj" THEN [list[i] EXCEPT !.id = i] ELSE list[i]]

\* A payload that is not a list (an error object, a string, null).
NonListPayload == [isList |-> FALSE, items |-> <<>>]

ListPayload(items) == [isList |-> TRUE, items |-> items]

CollectionPayloads ==
    {NonListPayload} \cup {ListPayload(WithIds(l)) : l \in ListsUpTo(EntryPool, MaxColls)}

Queries ==
    { <<>>, <<" ">>, <<"a">>, <<" ", "A", "b", " ">>, <<"b">> }

LimitValues == (0 - 1)..MaxColls

\* A card object; its id is its position in the upstream list.
Card(name, description, collection_id, updated_at) ==
    [id |-> 0, name |-> name, description |-> description,
     collection_id |-> collection_id, updated_at |-> updated_at,
     created_at |-> NoneText]

CardPool ==
    { Card(<<"A", "b">>, NoneText, "10", <<"1">>),
      Card(<<"a">>, <<"B">>, "10", <<"2">>),
      Card(NoneText, <<"a">>, "11", NoneText),
      Card(<<"b">>, NoneText, "None", <<"2">>) }

CardsWithIds(list) == [i \in 1..Len(list) |-> [list[i] EXCEPT !.id = i]]

CardPayloads ==
    {NonListPayload} \cup {ListPayload(CardsWithIds(l)) : l \in ListsUpTo(CardPool, MaxCards)}

CardQueries == { <<>>, <<" ">>, <<" ", "B">>, <<"a">> }

CollectionIds == {"10", "11"}

CollectionIdLists == ListsUpTo(CollectionIds, MaxIds)

PageValues == (0 - 1)..MaxPage

\* The tasks that may be inside MetabaseClient.request.
Tasks == 1..NumTasks

\* A request without a credential header.
NoHeader == [auth |-> "none"]

\* The paths the tools request, and the URL request() builds from one.
Paths == {"/collection", "/card"}

Url(path) == <<"METABASE_URL", "/api", path>>

\* An HTTP response: its status code and what its body is, nothing, a JSON
\* text or a text that is no JSON. NoResponse: no response was received.
StatusCodes == {200, 401}

BodyKinds == {"empty", "json", "text"}

Responses == [status : StatusCodes, body : BodyKinds]

NoResponse == [status |-> 0, body |-> "empty"]

\* What the HTTP client raises instead of giving a response: the httpx
\* exceptions request() names and one it does not.
TransportFailures == {"ConnectTimeout", "ReadTimeout", "ConnectError", "WriteError"}

\* A task outside request().
NoCall == [path |-> "none", response |-> NoResponse, failure |-> "none",
           login |-> NoResponse, logins |-> 0, sends |-> 0]

\* The failures MetabaseClient.request raises: the four it classifies, and
\* any other exception of the transport or of response.json(), which it lets
\* through as it is.
GatewayFailures == {"ApiError", "ConnectTimeout", "ReadTimeout", "ConnectError", "Other"}

-----------------------------------------------------------------------------
(* find_candidate_collections                                              *)

\* `if not collection: continue`: None and the empty object are falsy.
IsSkipped(collection) == collection.kind \in {"null", "empty"}

\* A search term that keeps the blanks around the query.
SearchTermUnstripped(query) == Lower(query)

\* query.strip().lower()
SearchTerm(query) == Lower(Strip(query))

\* The test with the description left out.
CollectionMatchesNameOnly(collection, search_term) ==
    Contains(Lower(OrEmpty(collection.name)), search_term)

\* The test of the filter loop on one collection object.
CollectionMatches(collection, search_term) ==
    LET collection_name == Lower(OrEmpty(collection.name))
        collection_desc == Lower(OrEmpty(collection.description))
    IN  Contains(collection_name, search_term) \/ Contains(collection_desc, search_term)

\* The projection appended to matched_collections.
MatchedCollection(collection) ==
    [collection_id |-> collection.id,
     collection_name |-> collection.name,
     description |-> collection.description,
     parent_id |-> collection.parent_id,
     archived |-> collection.archived]

\* The filter loop: matched_collections in upstream order.
RECURSIVE FilterCollections(_, _)
FilterCollections(items, search_term) ==
    IF items = <<>> THEN <<>>
    ELSE LET rest == FilterCollections(Tail(items), search_term)
             c == Head(items)
         IN  IF IsSkipped(c) THEN rest
             ELSE IF CollectionMatches(c, search_term)
                  THEN <<MatchedCollection(c)>> \o rest
                  ELSE rest

\* The sort key x.get("collection_name", "").lower(): the key is always
\* present in a projection, so the default never applies and a None name
\* reaches .lower(), which raises AttributeError.
SortKeyRaises(x) == x.collection_name = NoneText

\* The key without .lower(): a case-sensitive sort.
SortKeyCaseSensitive(x) == x.collection_name

SortKey(x) == Lower(x.collection_name)

\* matched_collections.sort(key=...)
SortByName(matched) ==
    Items(SortKeyed([i \in 1..Len(matched) |->
                        [key |-> SortKey(matched[i]), item |-> matched[i]]], FALSE))

\* matched_collections[:limit_collections]
LimitCollections(sorted, limit_collections) == PySlice(sorted, 0, limit_collections)

\* The body returned for a payload that is not a list.
NonListBody(query) ==
    [query |-> query,
     collections |-> <<>>,
     results |-> [total_collections_searched |-> 0, matched_collections |-> 0]]

\* The count of the entries the loop did not skip.
TotalSearchedNotSkipped(items) ==
    Cardinality({i \in 1..Len(items) : ~IsSkipped(items[i])})

\* len(collections): every entry of the raw list, skipped ones too.
TotalSearched(items) == Len(items)

\* The body returned for a list payload (without its "note", a fixed text).
ListBody(query, items, matched, limited) ==
    [query |-> query,
     collections |-> limited,
     results |-> [total_collections_searched |-> TotalSearched(items),
                  matched_collections |-> Len(matched),
                  returned_collections |-> Len(limited)]]

\* The handler after its request returned `payload`: what it gives its
\* caller, and matched_collections as the filter loop left it.
FindCandidateCollections(payload, query, limit_collections) ==
    IF ~payload.isList
    THEN [matched |-> <<>>, result |-> [status |-> "returned", body |-> NonListBody(query)]]
    ELSE LET matched == FilterCollections(payload.items, SearchTerm(query))
         IN  IF \E i \in 1..Len(matched) : SortKeyRaises(matched[i])
             THEN [matched |-> matched,
                   result |-> [status |-> "raised", error |-> "AttributeError"]]
             ELSE [matched |-> matched,
                   result |-> [status |-> "returned",
                               body |-> ListBody(query, payload.items, matched,
                                           LimitCollections(SortByName(matched),
                                                            limit_collections))]]

NoResult == [status |-> "none"]

NoArgs == [query |-> <<>>, collection_ids |-> <<>>, limit |-> 0, offset |-> 0]

NoListArgs == [limit |-> 0, offset |-> 0, filter_type |-> "all"]

\* metabase_client.request("GET", "/collection")
CollectionRequest == [method |-> "GET", path |-> "/collection"]

\* A tool call arrives: the handler issues GET /collection and suspends.
FindStart ==
    /\ fpc = "idle"
    /\ \E q \in Queries, l \in LimitValues :
        /\ fquery' = q
        /\ flimit' = l
    /\ fpc' = "fetching"
    /\ freq' = Append(freq, CollectionRequest)
    /\ UNCHANGED <<uchanged, collections, fmatched, fresult, flog, svars, lvars, gvars>>

\* The request returns the upstream payload and the handler runs to its end.
FindRespond ==
    /\ fpc = "fetching"
    /\ LET r == FindCandidateCollections(collections, fquery, flimit)
       IN  /\ fmatched' = r.matched
           /\ fresult' = r.result
    /\ flog' = "ok"
    /\ fpc' = "done"
    /\ UNCHANGED <<uchanged, collections, fquery, flimit, freq, svars, lvars, gvars>>

\* A handler that answers a failed request with the empty result.
OuterExceptReturnsEmpty(kind, query) == [status |-> "returned", body |-> NonListBody(query)]

\* The outer `except Exception`: the handler logs the failure and raises it
\* again.
OuterExcept(kind, query) == [status |-> "raised", error |-> kind]

\* The request raises: the handler logs and re-raises.
FindFail ==
    /\ fpc = "fetching"
    /\ \E kind \in GatewayFailures :
        /\ fresult' = OuterExcept(kind, fquery)
        /\ flog' = kind
    /\ fpc' = "done"
    /\ UNCHANGED <<uchanged, collections, fquery, flimit, fmatched, freq, svars, lvars, gvars>>

\* The caller has the outcome; nothing of the call is kept.
FindReturn ==
    /\ fpc = "done"
    /\ fpc' = "idle"
    /\ fquery' = <<>>
    /\ flimit' = 0
    /\ fmatched' = <<>>
    /\ fresult' = NoResult
    /\ flog' = "none"
    /\ freq' = <<>>
    /\ UNCHANGED <<uchanged, collections, svars, lvars, gvars>>

\* No find_candidate_collections call is running.
FindIdle ==
    /\ fpc = "idle"
    /\ fquery = <<>>
    /\ flimit = 0
    /\ fmatched = <<>>
    /\ fresult = NoResult
    /\ flog = "none"
    /\ freq = <<>>

\* No search_cards_in_collections call is running.
SearchIdle ==
    /\ spc = "idle"
    /\ sargs = NoArgs
    /\ sidx = 0
    /\ smatches = <<>>
    /\ slog = <<>>
    /\ sresult = NoResult
    /\ sreq = <<>>

\* No list_cards_paginated call is running.
ListIdle ==
    /\ lpc = "idle"
    /\ largs = NoListArgs
    /\ lresult = NoResult
    /\ lreq = <<>>

\* The gateway of the tool specifications: a started client with an API key,
\* no request of its own in flight.
GatewayIdle ==
    /\ config = [url |-> TRUE, api_key |-> "key", email |-> FALSE, password |-> FALSE]
    /\ phase = "running"
    /\ session_token = "None"
    /\ gpc = [t \in Tasks |-> "idle"]
    /\ gsent = [t \in Tasks |-> NoHeader]
    /\ gout = [t \in Tasks |-> NoResult]
    /\ gcall = [t \in Tasks |-> NoCall]

InitDiscovery ==
    /\ collections \in CollectionPayloads
    /\ cards = NonListPayload
    /\ uchanged = FALSE
    /\ FindIdle
    /\ SearchIdle
    /\ ListIdle
    /\ GatewayIdle

NextDiscovery == FindStart \/ FindRespond \/ FindFail \/ FindReturn

SpecDiscovery == InitDiscovery /\ [][NextDiscovery]_vars

-----------------------------------------------------------------------------
(* search_cards_in_collections                                             *)

\* The test of the search loop on one card of the collection.
CardMatches(card, search_term) ==
    LET card_name == Lower(OrEmpty(card.name))
        card_description == Lower(OrEmpty(card.description))
    IN  Contains(card_name, search_term) \/ Contains(card_description, search_term)

\* The filter by collection left out.
InAnyCollection(card, collection_id) == TRUE

\* card.get("collection_id") == collection_id
InCollection(card, collection_id) == card.collection_id = collection_id

\* matched_card: only the essential fields.
MatchedCard(card) ==
    [id |-> card.id,
     name |-> card.name,
     description |-> card.description,
     collection_id |-> card.collection_id,
     updated_at |-> card.updated_at,
     created_at |-> card.created_at]

\* The cards of all_cards that the loop body appends for collection_id, in
\* upstream order.
RECURSIVE FilterCards(_, _, _)
FilterCards(all_cards, collection_id, search_term) ==
    IF all_cards = <<>> THEN <<>>
    ELSE LET rest == FilterCards(Tail(all_cards), collection_id, search_term)
             card == Head(all_cards)
         IN  IF InCollection(card, collection_id) /\ CardMatches(card, search_term)
             THEN <<MatchedCard(card)>> \o rest
             ELSE rest

\* A loop body that appends only the cards all_matches does not hold yet.
SearchCollectionOnce(all_matches, payload, collection_id, search_term) ==
    IF payload.isList
    THEN LET found == FilterCards(payload.items, collection_id, search_term)
         IN  all_matches \o SelectSeq(found,
                 LAMBDA c : \A k \in 1..Len(all_matches) : all_matches[k] # c)
    ELSE all_matches

\* The loop body after its request returned `payload`: all_matches extended.
SearchCollection(all_matches, payload, collection_id, search_term) ==
    IF payload.isList
    THEN all_matches \o FilterCards(payload.items, collection_id, search_term)
    ELSE all_matches

\* A handler that catches the gateway's API error only.
InnerExceptCatchesApiErrorOnly(kind) == kind = "ApiError"

\* A loop without a handler of its own.
InnerExceptCatchesNothing(kind) == FALSE

\* `except Exception`: whether the loop's handler catches a failure of the
\* request, logs it and continues with the next collection id.
InnerExceptCatches(kind) == TRUE

\* The sort key x.get("updated_at") or "".
UpdatedKey(x) == OrEmpty(x.updated_at)

\* A sort by the same key without reverse=True: oldest first.
SortByUpdatedAscending(all_matches) ==
    Items(SortKeyed([i \in 1..Len(all_matches) |->
                        [key |-> UpdatedKey(all_matches[i]), item |-> all_matches[i]]], FALSE))

\* all_matches.sort(key=..., reverse=True)
SortByUpdated(all_matches) ==
    Items(SortKeyed([i \in 1..Len(all_matches) |->
                        [key |-> UpdatedKey(all_matches[i]), item |-> all_matches[i]]], TRUE))

\* all_matches[offset : offset + limit]
\* A slice that ends at limit instead of offset + limit.
PaginateStopAtLimit(sorted, limit, offset) == PySlice(sorted, offset, limit)

\* sorted_matches[offset : offset + limit]
Paginate(sorted, limit, offset) == PySlice(sorted, offset, offset + limit)

\* A body whose total_found counts the page instead of the sorted list.
SearchBodyTotalOfPage(args, all_matches) ==
    LET sorted == SortByUpdated(all_matches)
        paginated_matches == Paginate(sorted, args.limit, args.offset)
        total_found == Len(paginated_matches)
    IN  [query |-> args.query,
         collections_searched |-> args.collection_ids,
         pagination |-> [limit |-> args.limit,
                         offset |-> args.offset,
                         returned |-> Len(paginated_matches),
                         total_found |-> total_found,
                         has_more |-> args.offset + args.limit < total_found],
         cards |-> paginated_matches]

\* The body the handler returns once the loop is over (without its "note", a
\* text made of len(collection_ids), query and total_found).
SearchBody(args, all_matches) ==
    LET sorted == SortByUpdated(all_matches)
        total_found == Len(sorted)
        paginated_matches == Paginate(sorted, args.limit, args.offset)
    IN  [query |-> args.query,
         collections_searched |-> args.collection_ids,
         pagination |-> [limit |-> args.limit,
                         offset |-> args.offset,
                         returned |-> Len(paginated_matches),
                         total_found |-> total_found,
                         has_more |-> args.offset + args.limit < total_found],
         cards |-> paginated_matches]

\* A search that posts to /card.
CardRequestAsPost(collection_id) == [method |-> "POST", path |-> "/card"]

\* metabase_client.request("GET", "/card"), the same for every collection id.
CardRequest(collection_id) == [method |-> "GET", path |-> "/card"]

\* A loop that leaves out the last collection id.
MoreIdsButLast(idx, collection_ids) == idx < Len(collection_ids) - 1

\* `for collection_id in collection_ids`: whether an id follows position idx.
MoreIds(idx, collection_ids) == idx < Len(collection_ids)

\* The loop moves on from position idx: to the next request, or past the loop
\* to the sort, the slice and the return.
SearchAdvance(idx, all_matches) ==
    IF MoreIds(idx, sargs.collection_ids)
    THEN /\ spc' = "fetching"
         /\ sidx' = idx + 1
         /\ sresult' = sresult
         /\ sreq' = Append(sreq, CardRequest(sargs.collection_ids[idx + 1]))
    ELSE /\ spc' = "done"
         /\ sidx' = idx
         /\ sreq' = sreq
         /\ sresult' = [status |-> "returned", body |-> SearchBody(sargs, all_matches)]

\* A tool call arrives: the handler issues GET /card for the first collection
\* id and suspends, or returns at once when there is none.
SearchStart ==
    /\ spc = "idle"
    /\ \E q \in CardQueries, ids \in CollectionIdLists,
          l \in PageValues, o \in PageValues :
        LET args == [query |-> q, collection_ids |-> ids, limit |-> l, offset |-> o]
        IN  /\ sargs' = args
            /\ IF ~MoreIds(0, ids)
               THEN /\ spc' = "done"
                    /\ sidx' = 0
                    /\ sreq' = sreq
                    /\ sresult' = [status |-> "returned", body |-> SearchBody(args, <<>>)]
               ELSE /\ spc' = "fetching"
                    /\ sidx' = 1
                    /\ sreq' = Append(sreq, CardRequest(ids[1]))
                    /\ sresult' = sresult
    /\ UNCHANGED <<uchanged, cards, smatches, slog, fvars, lvars, gvars>>

\* The request of the current collection id returns the upstream payload.
SearchFetchOk ==
    /\ spc = "fetching"
    /\ LET all_matches == SearchCollection(smatches, cards, sargs.collection_ids[sidx],
                                           SearchTerm(sargs.query))
       IN  /\ smatches' = all_matches
           /\ SearchAdvance(sidx, all_matches)
    /\ slog' = Append(slog, "ok")
    /\ UNCHANGED <<uchanged, cards, sargs, fvars, lvars, gvars>>

\* The request of the current collection id raises.
SearchFetchFail ==
    /\ spc = "fetching"
    /\ \E kind \in GatewayFailures :
        IF InnerExceptCatches(kind)
        THEN /\ SearchAdvance(sidx, smatches)
             /\ smatches' = smatches
        ELSE /\ spc' = "done"
             /\ sidx' = sidx
             /\ smatches' = smatches
             /\ sreq' = sreq
             /\ sresult' = [status |-> "raised", error |-> kind]
    /\ slog' = Append(slog, "failed")
    /\ UNCHANGED <<uchanged, cards, sargs, fvars, lvars, gvars>>

\* The caller has the outcome; nothing of the call is kept.
SearchReturn ==
    /\ spc = "done"
    /\ spc' = "idle"
    /\ sargs' = NoArgs
    /\ sidx' = 0
    /\ smatches' = <<>>
    /\ slog' = <<>>
    /\ sresult' = NoResult
    /\ sreq' = <<>>
    /\ UNCHANGED <<uchanged, cards, fvars, lvars, gvars>>

InitSearch ==
    /\ cards \in CardPayloads
    /\ collections = NonListPayload
    /\ uchanged = FALSE
    /\ FindIdle
    /\ SearchIdle
    /\ ListIdle
    /\ GatewayIdle

NextSearch == SearchStart \/ SearchFetchOk \/ SearchFetchFail \/ SearchReturn

SpecSearch == InitSearch /\ [][NextSearch]_vars

-----------------------------------------------------------------------------
(* list_cards_paginated: one GET /card, then the slice of the payload.     *)

\* The filter_type arguments of the model: the default and one filter.
FilterTypes == {"all", "mine"}

\* The endpoint: "/card", with the query string f=<filter_type> unless the
\* filter is "all".
ListRequest(filter_type) ==
    [method |-> "GET",
     path |-> IF filter_type # "all" THEN <<"/card", "f", filter_type>> ELSE <<"/card">>]

\* A slice that takes limit as its end.
ListPageStopAtLimit(result, limit, offset) == PySlice(result, offset, limit)

\* result[offset : offset + limit]
ListPage(result, limit, offset) == PySlice(result, offset, offset + limit)

\* The handler after its request returned `payload`: the page and its
\* pagination for a list, the payload itself for anything else.
ListCardsPaginated(payload, args) ==
    IF payload.isList
    THEN LET paginated_result == ListPage(payload.items, args.limit, args.offset)
         IN  [cards |-> paginated_result,
              pagination |-> [limit |-> args.limit,
                              offset |-> args.offset,
                              returned |-> Len(paginated_result),
                              total_available |-> Len(payload.items),
                              has_more |-> args.offset + args.limit < Len(payload.items)],
              filter |-> args.filter_type]
    ELSE payload

\* A tool call arrives: the handler issues its request and suspends.
ListStart ==
    /\ lpc = "idle"
    /\ \E l \in PageValues, o \in PageValues, f \in FilterTypes :
        /\ largs' = [limit |-> l, offset |-> o, filter_type |-> f]
        /\ lreq' = Append(lreq, ListRequest(f))
    /\ lpc' = "fetching"
    /\ UNCHANGED <<uchanged, lresult, fvars, svars, gvars>>

\* The request returns the upstream payload.
ListRespond ==
    /\ lpc = "fetching"
    /\ lresult' = [status |-> "returned", body |-> ListCardsPaginated(cards, largs)]
    /\ lpc' = "done"
    /\ UNCHANGED <<uchanged, largs, lreq, fvars, svars, gvars>>

\* The request raises: the handler logs and re-raises.
ListFail ==
    /\ lpc = "fetching"
    /\ \E kind \in GatewayFailures :
        lresult' = [status |-> "raised", error |-> kind]
    /\ lpc' = "done"
    /\ UNCHANGED <<uchanged, largs, lreq, fvars, svars, gvars>>

\* The caller has the outcome; nothing of the call is kept.
ListReturn ==
    /\ lpc = "done"
    /\ lpc' = "idle"
    /\ largs' = NoListArgs
    /\ lresult' = NoResult
    /\ lreq' = <<>>
    /\ UNCHANGED <<uchanged, fvars, svars, gvars>>

InitListing ==
    /\ cards \in CardPayloads
    /\ collections = NonListPayload
    /\ uchanged = FALSE
    /\ FindIdle
    /\ SearchIdle
    /\ ListIdle
    /\ GatewayIdle

NextListing == ListStart \/ ListRespond \/ ListFail \/ ListReturn

SpecListing == InitListing /\ [][NextListing]_vars

-----------------------------------------------------------------------------
(* Both tools, called one at a time, against an upstream whose data        *)
(* changes at any moment, also while a call waits for a response.          *)

\* The upstream data of this specification: no list, the empty list, or a
\* list of one entry, which is null, the empty object or an archived
\* collection, and a card of collection 10 or one of collection 11.
ToolEntryPool == {NullEntry, EmptyEntry, Coll(<<"B">>, <<>>, TRUE)}

ToolCollectionPayloads ==
    {NonListPayload} \cup {ListPayload(WithIds(l)) : l \in ListsUpTo(ToolEntryPool, 1)}

ToolCardPool ==
    { Card(<<"A", "b">>, NoneText, "10", <<"1">>),
      Card(NoneText, <<"a">>, "11", NoneText) }

ToolCardPayloads ==
    {NonListPayload} \cup {ListPayload(CardsWithIds(l)) : l \in ListsUpTo(ToolCardPool, 1)}

\* The upstream gets other collections and cards, through create_card or
\* create_collection run by another task or through another client of the
\* upstream: every request answered afterwards is answered with the new
\* data. A running call is at an await and is not touched.
UpstreamChange ==
    /\ \/ /\ collections' \in ToolCollectionPayloads \ {collections}
          /\ cards' = cards
       \/ /\ cards' \in ToolCardPayloads \ {cards}
          /\ collections' = collections
    /\ uchanged' = TRUE
    /\ UNCHANGED <<fpc, fquery, flimit, fmatched, fresult, flog, freq,
                   spc, sargs, sidx, smatches, slog, sresult, sreq, lvars, gvars>>

InitTools ==
    /\ collections \in ToolCollectionPayloads
    /\ cards \in ToolCardPayloads
    /\ uchanged = FALSE
    /\ FindIdle
    /\ SearchIdle
    /\ ListIdle
    /\ GatewayIdle

NextTools ==
    \/ spc = "idle" /\ NextDiscovery
    \/ fpc = "idle" /\ NextSearch
    \/ UpstreamChange

SpecTools == InitTools /\ [][NextTools]_vars

-----------------------------------------------------------------------------
(* The request gateway with session authentication: MetabaseClient of      *)
(* server.py. Each task is one call of request(); asyncio runs a task      *)
(* without interruption from one await to the next, so an action is the    *)
(* code between two awaits.                                                *)

\* The environments: with or without a METABASE_URL, an API key, an email,
\* a password (an unset variable and an empty one are both falsy).
Configs == [url : BOOLEAN, api_key : {"None", "key"}, email : BOOLEAN, password : BOOLEAN]

\* A startup check that raises only when email and password are both missing.
StartupRaisesWhenBothMissing(cfg) ==
    ~cfg.url \/ (cfg.api_key = "None" /\ ~cfg.email /\ ~cfg.password)

\* The module's startup check: without a METABASE_URL, or without an API key
\* and without a complete email and password pair, the import raises
\* ValueError.
StartupRaises(cfg) ==
    ~cfg.url \/ (cfg.api_key = "None" /\ (~cfg.email \/ ~cfg.password))

\* MetabaseClient.__init__: auth_method.
AuthMethod(cfg) == IF cfg.api_key # "None" THEN "api_key" ELSE "session"

\* The ids a successful login answers with; "None" is a body without "id".
SessionIds == {"s1", "s2", "None"}

\* _get_headers once the token is settled: the credential header it adds.
SessionHeader(token) ==
    IF token # "None" THEN [auth |-> "session", value |-> token] ELSE NoHeader

\* A client that logs in for every request.
NeedsLoginAlways(token) == TRUE

\* _get_headers: `if not self.session_token` decides whether this call
\* awaits _get_session_token, which posts the login.
NeedsLogin(token) == token = "None"

\* _get_session_token: `if not METABASE_USER_EMAIL or not METABASE_PASSWORD`
\* raises ValueError instead of posting the login.
LoginRaisesValueError(cfg) == ~cfg.email \/ ~cfg.password

\* httpx Response.is_success: a 2xx status.
IsSuccess(response) == response.status >= 200 /\ response.status < 300

\* response.json() raises a JSON decode error on a body that is no JSON text,
\* the empty body included.
JsonRaises(response) == response.body # "json"

\* request() from the response on: a non-2xx status parses the body for the
\* log when there is one (`response.json() if response.content else {}`) and
\* then raises the error with the status code and the body text; a 2xx status
\* returns response.json().
HandleResponse(response) ==
    IF ~IsSuccess(response)
    THEN IF response.body # "empty" /\ JsonRaises(response)
         THEN [status |-> "raised", error |-> "JSONDecodeError"]
         ELSE [status |-> "raised", error |-> "ApiError",
               code |-> response.status, text |-> response.body]
    ELSE IF JsonRaises(response)
         THEN [status |-> "raised", error |-> "JSONDecodeError"]
         ELSE [status |-> "returned"]

\* A gateway that sends a failed API request a second time.
RetryOnce(call) == IF call.sends < 2 THEN "retry" ELSE "raise"

\* request() after a failed API request: there is no loop around the request
\* and no handler that sends it again, the failure is raised.
AfterApiFailure(call) == "raise"

\* Task t calls request(): _get_headers runs up to its first await. The
\* ValueError of _get_session_token needs a missing email or password
\* without an API key, which the startup check excludes. This gateway uses
\* the path for the URL of the request only, and nothing here depends on it:
\* the call is followed without its path.
GwRequestStart(t) ==
    /\ phase = "running"
    /\ gpc[t] = "idle"
    /\ LET call == NoCall
        IN  IF AuthMethod(config) = "api_key"
            THEN /\ gpc' = [gpc EXCEPT ![t] = "api"]
                 /\ gsent' = [gsent EXCEPT ![t] = [auth |-> "api_key", value |-> config.api_key]]
                 /\ gcall' = [gcall EXCEPT ![t] = [call EXCEPT !.sends = 1]]
                 /\ gout' = gout
            ELSE IF NeedsLogin(session_token)
            THEN IF LoginRaisesValueError(config)
                 THEN /\ gpc' = [gpc EXCEPT ![t] = "done"]
                      /\ gsent' = gsent
                      /\ gcall' = [gcall EXCEPT ![t] = call]
                      /\ gout' = [gout EXCEPT ![t] = [status |-> "raised", error |-> "ValueError"]]
                 ELSE /\ gpc' = [gpc EXCEPT ![t] = "login"]
                      /\ gsent' = gsent
                      /\ gcall' = [gcall EXCEPT ![t] = [call EXCEPT !.logins = 1]]
                      /\ gout' = gout
            ELSE /\ gpc' = [gpc EXCEPT ![t] = "api"]
                 /\ gsent' = [gsent EXCEPT ![t] = SessionHeader(session_token)]
                 /\ gcall' = [gcall EXCEPT ![t] = [call EXCEPT !.sends = 1]]
                 /\ gout' = gout
    /\ UNCHANGED <<uchanged, config, phase, session_token, fvars, svars, lvars>>

\* A login that takes the session id of any answer with a JSON body, whatever
\* its status.
LoginResultIgnoringStatus(response, id) ==
    IF JsonRaises(response)
    THEN [status |-> "raised", error |-> "JSONDecodeError"]
    ELSE [status |-> "token", id |-> id]

\* _get_session_token from the answer of the login on, id being the "id" of
\* its JSON body: a status other than 200 parses the body when there is one
\* (`response.json() if response.content else {}`) and raises
\* "Authentication failed"; status 200 parses the body and stores
\* session_data.get("id").
LoginResult(response, id) ==
    IF response.status # 200
    THEN IF response.body # "empty" /\ JsonRaises(response)
         THEN [status |-> "raised", error |-> "JSONDecodeError"]
         ELSE [status |-> "raised", error |-> "AuthenticationFailed",
               code |-> response.status]
    ELSE IF JsonRaises(response)
         THEN [status |-> "raised", error |-> "JSONDecodeError"]
         ELSE [status |-> "token", id |-> id]

\* The login of task t is answered and _get_session_token returns: the token
\* is stored and the API request is sent with it.
GwLoginOk(t) ==
    /\ gpc[t] = "login"
    /\ \E response \in Responses, id \in SessionIds :
        LET result == LoginResult(response, id)
        IN  /\ result.status = "token"
            /\ session_token' = result.id
            /\ gsent' = [gsent EXCEPT ![t] = SessionHeader(result.id)]
            /\ gcall' = [gcall EXCEPT ![t].login = response, ![t].sends = @ + 1]
    /\ gpc' = [gpc EXCEPT ![t] = "api"]
    /\ UNCHANGED <<uchanged, config, phase, gout, fvars, svars, lvars>>

\* The login of task t is answered and _get_session_token raises, or the
\* post itself raises: request() raises before any API request is sent.
GwLoginFail(t) ==
    /\ gpc[t] = "login"
    /\ \/ \E response \in Responses :
            LET result == LoginResult(response, "None")
            IN  /\ result.status = "raised"
                /\ gout' = [gout EXCEPT ![t] = result]
                /\ gcall' = [gcall EXCEPT ![t].login = response]
       \/ /\ gout' = [gout EXCEPT ![t] = [status |-> "raised", error |-> "TransportError"]]
          /\ gcall' = gcall
    /\ gpc' = [gpc EXCEPT ![t] = "done"]
    /\ UNCHANGED <<uchanged, config, phase, session_token, gsent, fvars, svars, lvars>>

\* The API request of task t is answered with a 2xx status.
GwApiOk(t) ==
    /\ gpc[t] = "api"
    /\ \E response \in Responses :
        /\ IsSuccess(response)
        /\ gcall' = [gcall EXCEPT ![t].response = response]
        /\ gout' = [gout EXCEPT ![t] = HandleResponse(response)]
    /\ gpc' = [gpc EXCEPT ![t] = "done"]
    /\ UNCHANGED <<uchanged, config, phase, session_token, gsent, fvars, svars, lvars>>

\* The API request of task t has failed, call holding what the HTTP client
\* gave: request() raises the outcome.
GwRaise(t, call, outcome) ==
    IF AfterApiFailure(call) = "retry"
    THEN /\ gcall' = [gcall EXCEPT ![t] = [call EXCEPT !.sends = @ + 1]]
         /\ gpc' = gpc
         /\ gout' = gout
    ELSE /\ gcall' = [gcall EXCEPT ![t] = call]
         /\ gpc' = [gpc EXCEPT ![t] = "done"]
         /\ gout' = [gout EXCEPT ![t] = outcome]

\* The API request of task t is answered with another status, or the HTTP
\* client raises; its exception is not caught.
GwApiFail(t) ==
    /\ gpc[t] = "api"
    /\ \/ \E response \in Responses :
            /\ ~IsSuccess(response)
            /\ GwRaise(t, [gcall[t] EXCEPT !.response = response], HandleResponse(response))
       \/ \E kind \in TransportFailures :
            GwRaise(t, [gcall[t] EXCEPT !.failure = kind],
                    [status |-> "raised", error |-> kind])
    /\ UNCHANGED <<uchanged, config, phase, session_token, gsent, fvars, svars, lvars>>

\* The caller of task t has the outcome.
GwReturn(t) ==
    /\ gpc[t] = "done"
    /\ gpc' = [gpc EXCEPT ![t] = "idle"]
    /\ gsent' = [gsent EXCEPT ![t] = NoHeader]
    /\ gout' = [gout EXCEPT ![t] = NoResult]
    /\ gcall' = [gcall EXCEPT ![t] = NoCall]
    /\ UNCHANGED <<uchanged, config, phase, session_token, fvars, svars, lvars>>

InitGateway ==
    /\ config \in Configs
    /\ phase = (IF StartupRaises(config) THEN "startup_failed" ELSE "running")
    /\ session_token = "None"
    /\ gpc = [t \in Tasks |-> "idle"]
    /\ gsent = [t \in Tasks |-> NoHeader]
    /\ gout = [t \in Tasks |-> NoResult]
    /\ gcall = [t \in Tasks |-> NoCall]
    /\ collections = NonListPayload
    /\ cards = NonListPayload
    /\ uchanged = FALSE
    /\ FindIdle
    /\ SearchIdle
    /\ ListIdle

NextGateway ==
    \E t \in Tasks :
        \/ GwRequestStart(t)
        \/ GwLoginOk(t)
        \/ GwLoginFail(t)
        \/ GwApiOk(t)
        \/ GwApiFail(t)
        \/ GwReturn(t)

SpecGateway == InitGateway /\ [][NextGateway]_vars

-----------------------------------------------------------------------------
(* The request gateway with API-key authentication: MetabaseClient of      *)
(* src/server.py. request() opens an HTTP client of its own, sends one     *)
(* request and handles its response or the exception the client raises.    *)

\* A handler that swallows the failure and returns nothing.
SwallowTransportFailure(kind, url) == [status |-> "returned"]

\* The except clauses of request(): a connect timeout, a read timeout and a
\* connection error are raised again as an Exception whose message names the
\* kind of failure and the URL; any other exception passes as it is.
ClassifyTransportFailure(kind, url) ==
    IF kind \in {"ConnectTimeout", "ReadTimeout", "ConnectError"}
    THEN [status |-> "raised", error |-> "Exception", kind |-> kind, url |-> url]
    ELSE [status |-> "raised", error |-> kind]

\* Task t calls request(path): the headers carry the API key and the
\* request is sent.
RqStart(t) ==
    /\ gpc[t] = "idle"
    /\ \E path \in Paths :
        gcall' = [gcall EXCEPT ![t] = [NoCall EXCEPT !.path = path, !.sends = 1]]
    /\ gpc' = [gpc EXCEPT ![t] = "api"]
    /\ gsent' = [gsent EXCEPT ![t] = [auth |-> "api_key", value |-> config.api_key]]
    /\ UNCHANGED <<uchanged, config, phase, session_token, gout, fvars, svars, lvars>>

\* The request of task t is answered.
RqRespond(t) ==
    /\ gpc[t] = "api"
    /\ \E response \in Responses :
        /\ gcall' = [gcall EXCEPT ![t].response = response]
        /\ gout' = [gout EXCEPT ![t] = HandleResponse(response)]
    /\ gpc' = [gpc EXCEPT ![t] = "done"]
    /\ UNCHANGED <<uchanged, config, phase, session_token, gsent, fvars, svars, lvars>>

\* The HTTP client of task t raises instead of giving a response.
RqRaise(t) ==
    /\ gpc[t] = "api"
    /\ \E kind \in TransportFailures :
        /\ gcall' = [gcall EXCEPT ![t].failure = kind]
        /\ gout' = [gout EXCEPT ![t] = ClassifyTransportFailure(kind, Url(gcall[t].path))]
    /\ gpc' = [gpc EXCEPT ![t] = "done"]
    /\ UNCHANGED <<uchanged, config, phase, session_token, gsent, fvars, svars, lvars>>

\* The caller of task t has the outcome.
RqReturn(t) ==
    /\ gpc[t] = "done"
    /\ gpc' = [gpc EXCEPT ![t] = "idle"]
    /\ gsent' = [gsent EXCEPT ![t] = NoHeader]
    /\ gout' = [gout EXCEPT ![t] = NoResult]
    /\ gcall' = [gcall EXCEPT ![t] = NoCall]
    /\ UNCHANGED <<uchanged, config, phase, session_token, fvars, svars, lvars>>

InitRequest ==
    /\ collections = NonListPayload
    /\ cards = NonListPayload
    /\ uchanged = FALSE
    /\ FindIdle
    /\ SearchIdle
    /\ ListIdle
    /\ GatewayIdle

NextRequest ==
    \E t \in Tasks : RqStart(t) \/ RqRespond(t) \/ RqRaise(t) \/ RqReturn(t)

SpecRequest == InitRequest /\ [][NextRequest]_vars

-----------------------------------------------------------------------------
(* Properties of the gateway.                                              *)

LoginsInFlight == {t \in Tasks : gpc[t] = "login"}

\* C1: under session authentication at most one login request is in flight:
\* a request that arrives while a login is in flight, or after one stored
\* its token, issues no login of its own.
C1_SingleFlightLogin ==
    AuthMethod(config) = "session" => Cardinality(LoginsInFlight) <= 1

-----------------------------------------------------------------------------
(* Properties of find_candidate_collections.                               *)

\* The request of the call returned a payload and the handler ran to its end.
FindResponded ==
    /\ fpc = "done"
    /\ \/ fresult.status = "returned"
       \/ fresult.status = "raised" /\ fresult.error \notin GatewayFailures

FindFiltered == FindResponded /\ collections.isList

FindReturned == fpc = "done" /\ fresult.status = "returned"

\* The match the specification states, on an upstream entry: the stripped,
\* lowercased query is a substring of the lowercased name or description,
\* an absent or null field counting as the empty string.
SpecField(entry, field) ==
    IF entry.kind = "obj" THEN OrEmpty(entry[field]) ELSE <<>>

SpecIsSubstring(t, s) ==
    \E i \in 1..(Len(s) + 1) : \E j \in (i - 1)..Len(s) : SubSeq(s, i, j) = t

SpecMatches(entry, query) ==
    \/ SpecIsSubstring(Lower(Strip(query)), Lower(SpecField(entry, "name")))
    \/ SpecIsSubstring(Lower(Strip(query)), Lower(SpecField(entry, "description")))

\* Positions of the upstream list holding a matching entry that is not null.
SpecNonNullMatches ==
    {j \in 1..Len(collections.items) :
        /\ collections.items[j] # NullEntry
        /\ SpecMatches(collections.items[j], fquery)}

\* Positions holding a matching collection object (not null, not empty).
SpecObjectMatches ==
    {j \in 1..Len(collections.items) :
        /\ collections.items[j].kind = "obj"
        /\ SpecMatches(collections.items[j], fquery)}

MatchedCount ==
    IF fresult.status = "returned"
    THEN fresult.body.results.matched_collections
    ELSE Len(fmatched)

\* C3 as stated: the matches are exactly the matching non-null entries of
\* the upstream list, and matched_collections counts them.
C3_MatchesAreNonNullMatching ==
    FindFiltered =>
        /\ Len(fmatched) = Cardinality(SpecNonNullMatches)
        /\ MatchedCount = Cardinality(SpecNonNullMatches)

\* C3 amended: the matches are exactly the matching collection objects of the
\* upstream list (entries that are neither null nor an empty object): each
\* match is the projection of one of them, each of them is matched once, and
\* matched_collections counts them.
C3_MatchesAreObjectMatching ==
    FindFiltered =>
        /\ \A i \in 1..Len(fmatched) :
              /\ fmatched[i].collection_id \in SpecObjectMatches
              /\ LET c == collections.items[fmatched[i].collection_id]
                 IN  /\ fmatched[i].collection_name = c.name
                     /\ fmatched[i].description = c.description
        /\ \A j \in SpecObjectMatches :
              \E i \in 1..Len(fmatched) : fmatched[i].collection_id = j
        /\ Len(fmatched) = Cardinality(SpecObjectMatches)
        /\ MatchedCount = Cardinality(SpecObjectMatches)

\* A call with a non-empty search term returned with one collection matched
\* through its description only, one collection object not matched, and an
\* empty object skipped.
C3_Witness ==
    /\ FindReturned /\ collections.isList
    /\ Lower(Strip(fquery)) = <<"a">>
    /\ Len(fmatched) = 1
    /\ fmatched[1].collection_name = <<"b">>
    /\ \E j \in 1..Len(collections.items) : collections.items[j] = EmptyEntry
    /\ \E j \in 1..Len(collections.items) :
          collections.items[j].kind = "obj" /\ collections.items[j].name = <<"B">>

\* The sort key the specification states: the lowercased name, null as "".
SpecNameKey(x) == Lower(OrEmpty(x.collection_name))

\* x is before y in the full sorted match list: by key, ties by upstream
\* position.
SpecSortsBefore(x, y) ==
    \/ StrLess(SpecNameKey(x), SpecNameKey(y))
    \/ SpecNameKey(x) = SpecNameKey(y) /\ x.collection_id < y.collection_id

\* C4: a returned list is sorted ascending by case-insensitive name with ties
\* in upstream order, is a prefix of the full sorted match list, and is no
\* longer than limit_collections, whenever limit_collections >= 0.
C4_SortedPrefixWithinLimit ==
    (FindReturned /\ flimit >= 0) =>
        LET out == fresult.body.collections
        IN  /\ \A i \in 1..Len(out) : \A j \in 1..Len(out) :
                  i < j => SpecSortsBefore(out[i], out[j])
            /\ \A i \in 1..Len(out) : \E k \in 1..Len(fmatched) : fmatched[k] = out[i]
            /\ \A k \in 1..Len(fmatched) :
                  \/ \E i \in 1..Len(out) : out[i] = fmatched[k]
                  \/ \A i \in 1..Len(out) : SpecSortsBefore(out[i], fmatched[k])
            /\ Len(out) <= flimit

\* Three collections matched, named "B", "a", "A" in upstream order; two
\* were returned, "a" then "A".
C4_Witness ==
    /\ FindReturned /\ flimit = 2
    /\ Len(fmatched) = 3
    /\ fmatched[1].collection_name = <<"B">>
    /\ Len(fresult.body.collections) = 2
    /\ fresult.body.collections[1].collection_name = <<"a">>
    /\ fresult.body.collections[2].collection_name = <<"A">>

\* C5: when a matching collection has a null name, the call returns a result
\* and the collections with a null name come before every collection with a
\* non-empty name.
C5_NullNameSortsFirst ==
    (FindFiltered /\ \E i \in 1..Len(fmatched) : fmatched[i].collection_name = NoneText) =>
        /\ fresult.status = "returned"
        /\ LET out == fresult.body.collections
           IN  \A i \in 1..Len(out) : \A j \in 1..Len(out) :
                  (out[j].collection_name = NoneText /\ OrEmpty(out[i].collection_name) # <<>>)
                      => j < i

\* C6: every response with limit_collections >= 0 reports
\* returned_collections, with matched_collections >= returned_collections and
\* returned_collections = min(matched_collections, limit_collections).
C6_ReturnedIsMinOfMatchedAndLimit ==
    (FindReturned /\ flimit >= 0) =>
        LET results == fresult.body.results
        IN  /\ "returned_collections" \in DOMAIN results
            /\ results.matched_collections >= results.returned_collections
            /\ results.returned_collections =
                  (IF results.matched_collections < flimit
                   THEN results.matched_collections ELSE flimit)

\* C7: for a payload that is not a list the call returns an empty collections
\* list and reports all three counts as 0.
C7_NonListGivesZeroCounts ==
    (FindResponded /\ ~collections.isList) =>
        /\ fresult.status = "returned"
        /\ fresult.body.collections = <<>>
        /\ DOMAIN fresult.body.results =
              {"total_collections_searched", "matched_collections", "returned_collections"}
        /\ \A k \in DOMAIN fresult.body.results : fresult.body.results[k] = 0

\* C8: for every upstream list holding null entries the call returns a
\* result, and no returned collection comes from a null entry.
C8_NullEntriesSkipped ==
    (FindFiltered /\ \E j \in 1..Len(collections.items) : collections.items[j] = NullEntry) =>
        /\ fresult.status = "returned"
        /\ \A i \in 1..Len(fresult.body.collections) :
              collections.items[fresult.body.collections[i].collection_id] # NullEntry

\* C9: for a list payload total_collections_searched is the length of the raw
\* upstream list, null entries included, whatever the query and the limit.
C9_TotalIsRawLength ==
    (FindReturned /\ collections.isList) =>
        fresult.body.results.total_collections_searched = Len(collections.items)

\* A returned call over a list of three entries, one of them null, with
\* fewer matches than entries and fewer returned than matched.
C9_Witness ==
    /\ FindReturned /\ collections.isList
    /\ Len(collections.items) = 3
    /\ \E j \in 1..3 : collections.items[j] = NullEntry
    /\ Len(fmatched) = 2
    /\ fresult.body.results.returned_collections = 1
    /\ fresult.body.results.total_collections_searched = 3

-----------------------------------------------------------------------------
(* Properties of search_cards_in_collections.                              *)

SearchDone == spc = "done"

\* The match the specification states on an upstream card.
SpecCardMatches(card, query) ==
    \/ SpecIsSubstring(Lower(Strip(query)), Lower(OrEmpty(card.name)))
    \/ SpecIsSubstring(Lower(Strip(query)), Lower(OrEmpty(card.description)))

\* Positions of the upstream card list holding a card of collection id that
\* matches the query of the call.
SpecCardsOf(id) ==
    IF cards.isList
    THEN {j \in 1..Len(cards.items) :
            /\ cards.items[j].collection_id = id
            /\ SpecCardMatches(cards.items[j], sargs.query)}
    ELSE {}

\* How often the upstream card at position j occurs in a list of matches.
Occurrences(matches, j) == Cardinality({k \in 1..Len(matches) : matches[k].id = j})

\* Positions of collection_ids whose fetch ended as `how` and asked for id.
PositionsOf(id, how) ==
    {i \in 1..Len(slog) : slog[i] = how /\ sargs.collection_ids[i] = id}

SomeFetchFailed == \E i \in 1..Len(slog) : slog[i] = "failed"

\* C2: when the fetch of a requested id fails the call still returns a
\* result, no exception reaches the caller, and the result holds the matches
\* of every requested id whose fetch succeeded: each matching card once per
\* successful fetch of its collection, counted in total_found, and on the
\* page when the page spans the whole match list.
C2_FailedFetchDoesNotAbort ==
    (SearchDone /\ SomeFetchFailed) =>
        /\ Len(slog) = Len(sargs.collection_ids)
        /\ sresult.status = "returned"
        /\ \A id \in CollectionIds : \A j \in SpecCardsOf(id) :
              /\ Occurrences(smatches, j) = Cardinality(PositionsOf(id, "ok"))
              /\ (sargs.offset = 0 /\ sargs.limit >= Len(smatches)) =>
                    Occurrences(sresult.body.cards, j) = Cardinality(PositionsOf(id, "ok"))
        /\ sresult.body.pagination.total_found = Len(smatches)

\* The fetch for collection 10 failed and the fetch for collection 11 succeeded;
\* the upstream holds a matching card in each; the card of collection 11 is
\* on the returned page.
C2_Witness ==
    /\ SearchDone
    /\ sargs.collection_ids = <<"10", "11">>
    /\ slog = <<"failed", "ok">>
    /\ SpecCardsOf("10") # {}
    /\ SpecCardsOf("11") # {}
    /\ sresult.status = "returned"
    /\ Len(sresult.body.cards) = 1
    /\ sresult.body.cards[1].collection_id = "11"

DistinctIds ==
    \A i \in 1..Len(sargs.collection_ids) : \A k \in 1..Len(sargs.collection_ids) :
        sargs.collection_ids[i] = sargs.collection_ids[k] => i = k

AllFetchesSucceeded ==
    /\ Len(slog) = Len(sargs.collection_ids)
    /\ \A i \in 1..Len(slog) : slog[i] = "ok"

RequestedIds == {sargs.collection_ids[i] : i \in 1..Len(sargs.collection_ids)}

\* C10: for distinct collection_ids whose fetches all succeed the match list
\* before pagination holds exactly the upstream cards of a requested
\* collection that match the query, each once; and in every response each
\* returned card's collection_id is a requested id, never null.
C10_MatchesAreCardsOfRequestedCollections ==
    (SearchDone /\ sresult.status = "returned") =>
        /\ \A k \in 1..Len(sresult.body.cards) :
              /\ sresult.body.cards[k].collection_id \in RequestedIds
              /\ sresult.body.cards[k].collection_id # "None"
        /\ (DistinctIds /\ AllFetchesSucceeded /\ cards.isList) =>
              /\ \A j \in 1..Len(cards.items) :
                    Occurrences(smatches, j) =
                        (IF /\ cards.items[j].collection_id \in RequestedIds
                            /\ SpecCardMatches(cards.items[j], sargs.query)
                         THEN 1 ELSE 0)
              /\ \A k \in 1..Len(smatches) :
                    /\ smatches[k].id \in 1..Len(cards.items)
                    /\ smatches[k].name = cards.items[smatches[k].id].name
                    /\ smatches[k].collection_id = cards.items[smatches[k].id].collection_id
              /\ sresult.body.pagination.total_found =
                    Cardinality(UNION {SpecCardsOf(id) : id \in RequestedIds})

\* Both fetches of a search over the distinct ids 11 and 10 succeeded; the
\* upstream holds a matching card of collection 10, which is the one match,
\* and a matching card with a null collection_id, which is not returned.
C10_Witness ==
    /\ SearchDone /\ sresult.status = "returned"
    /\ sargs.collection_ids = <<"11", "10">>
    /\ AllFetchesSucceeded /\ cards.isList
    /\ Lower(Strip(sargs.query)) = <<"b">>
    /\ \E j \in 1..Len(cards.items) :
          cards.items[j].collection_id = "None" /\ SpecCardMatches(cards.items[j], sargs.query)
    /\ Len(smatches) = 1
    /\ smatches[1].collection_id = "10"
    /\ Len(sresult.body.cards) = 1

-----------------------------------------------------------------------------
(* Properties of the order and the pagination of the search response.      *)

SearchReturned == SearchDone /\ sresult.status = "returned"

\* The timestamp a card is ordered by: a null updated_at counts as "".
SpecUpdatedKey(card) == IF card.updated_at = NoneText THEN <<>> ELSE card.updated_at

\* The card has a non-empty updated_at.
SpecHasTimestamp(card) == card.updated_at # NoneText /\ card.updated_at # <<>>

\* How many entries of the match list have a timestamp after k, and how many
\* have one that is not before k.
MatchesAfter(k) ==
    Cardinality({i \in 1..Len(smatches) : StrLess(k, SpecUpdatedKey(smatches[i]))})

MatchesNotBefore(k) ==
    Cardinality({i \in 1..Len(smatches) : ~StrLess(SpecUpdatedKey(smatches[i]), k)})

\* C11: the returned cards are in descending order of updated_at, a card
\* without updated_at never before one with a non-empty updated_at; the order
\* is that of the whole match list of all collections, taken before the
\* slice: the card at place i of a page that starts at offset >= 0 has at
\* most offset + i - 1 matches after it in time and at least offset + i
\* matches not before it.
C11_SortedDescendingGlobally ==
    SearchReturned =>
        LET page == sresult.body.cards
        IN  /\ \A i \in 1..Len(page) : \A j \in 1..Len(page) :
                  i < j =>
                      /\ ~StrLess(SpecUpdatedKey(page[i]), SpecUpdatedKey(page[j]))
                      /\ ~(~SpecHasTimestamp(page[i]) /\ SpecHasTimestamp(page[j]))
            /\ sargs.offset >= 0 =>
                  \A i \in 1..Len(page) :
                      /\ MatchesAfter(SpecUpdatedKey(page[i])) <= sargs.offset + i - 1
                      /\ MatchesNotBefore(SpecUpdatedKey(page[i])) >= sargs.offset + i

\* Collection 11 was fetched before collection 10; its card has no updated_at
\* and is returned after the card of collection 10, which has one.
C11_Witness ==
    /\ SearchReturned
    /\ sargs.collection_ids = <<"11", "10">>
    /\ AllFetchesSucceeded
    /\ Len(smatches) = 2
    /\ smatches[1].collection_id = "11" /\ smatches[1].updated_at = NoneText
    /\ Len(sresult.body.cards) = 2
    /\ sresult.body.cards[1].collection_id = "10"
    /\ SpecHasTimestamp(sresult.body.cards[1])
    /\ sresult.body.cards[2].collection_id = "11"
    /\ sresult.body.cards[2].updated_at = NoneText

\* The matches of the successful fetches of the call: one for each position
\* of collection_ids whose fetch succeeded and each matching upstream card of
\* the collection asked for at that position.
SpecFetchedMatches ==
    {pair \in (1..Len(slog)) \X (1..Len(cards.items)) :
        /\ slog[pair[1]] = "ok"
        /\ pair[2] \in SpecCardsOf(sargs.collection_ids[pair[1]])}

\* C12: total_found is the length of the whole match list, the matches of
\* all successful fetches, whatever limit and offset are; has_more is
\* exactly offset + limit < total_found; limit and offset are echoed.
C12_TotalFoundAndHasMore ==
    SearchReturned =>
        LET pagination == sresult.body.pagination
        IN  /\ pagination.total_found = Len(smatches)
            /\ pagination.total_found = Cardinality(SpecFetchedMatches)
            /\ pagination.has_more = (sargs.offset + sargs.limit < pagination.total_found)
            /\ pagination.limit = sargs.limit
            /\ pagination.offset = sargs.offset

\* Two matches were found and a page of one card was returned: total_found
\* is 2 and has_more is set.
C12_Witness ==
    /\ SearchReturned
    /\ sargs.limit = 1 /\ sargs.offset = 0
    /\ Len(smatches) = 2
    /\ Len(sresult.body.cards) = 1
    /\ sresult.body.pagination.total_found = 2
    /\ sresult.body.pagination.has_more

\* C13: for every limit and offset the tool accepts, zero and negative ones
\* included, returned is the number of cards on the page and lies between 0
\* and limit.
C13_ReturnedWithinLimit ==
    SearchReturned =>
        /\ sresult.body.pagination.returned = Len(sresult.body.cards)
        /\ 0 <= sresult.body.pagination.returned
        /\ sresult.body.pagination.returned <= sargs.limit

-----------------------------------------------------------------------------
(* A failed fetch against an empty collection.                             *)

\* The requested ids with a failed fetch, and those with a successful one.
FailedIds == {sargs.collection_ids[i] : i \in {k \in 1..Len(slog) : slog[k] = "failed"}}

FetchedIds == {sargs.collection_ids[i] : i \in {k \in 1..Len(slog) : slog[k] = "ok"}}

\* The upstream card list without the cards of the given collections.
RECURSIVE WithoutCollections(_, _)
WithoutCollections(items, ids) ==
    IF items = <<>> THEN <<>>
    ELSE IF Head(items).collection_id \in ids
         THEN WithoutCollections(Tail(items), ids)
         ELSE <<Head(items)>> \o WithoutCollections(Tail(items), ids)

UpstreamWithout(ids) ==
    [isList |-> cards.isList, items |-> WithoutCollections(cards.items, ids)]

\* The match list of a call whose fetches all succeed against the payload.
RECURSIVE MatchesWhenAllSucceed(_, _, _, _)
MatchesWhenAllSucceed(payload, ids, term, all_matches) ==
    IF ids = <<>> THEN all_matches
    ELSE MatchesWhenAllSucceed(payload, Tail(ids), term,
                               SearchCollection(all_matches, payload, Head(ids), term))

\* C15: a call in which the fetches of some requested ids fail returns, and
\* its response is the one of a call whose fetches all succeed against an
\* upstream that holds no card in the collections of those ids: nothing in
\* the response tells the two apart.
C15_FailureLooksLikeEmptyCollection ==
    (SearchDone /\ SomeFetchFailed /\ FailedIds \cap FetchedIds = {}) =>
        sresult = [status |-> "returned",
                   body |-> SearchBody(sargs,
                                MatchesWhenAllSucceed(UpstreamWithout(FailedIds),
                                                      sargs.collection_ids,
                                                      SearchTerm(sargs.query), <<>>))]

\* The fetch of collection 10 succeeded and gave a match; the fetch of
\* collection 11 failed, and the upstream holds a matching card there.
C15_Witness ==
    /\ SearchReturned
    /\ sargs.collection_ids = <<"10", "11">>
    /\ slog = <<"ok", "failed">>
    /\ SpecCardsOf("11") # {}
    /\ Len(sresult.body.cards) = 1
    /\ sresult.body.cards[1].collection_id = "10"
    /\ sresult.body.pagination.total_found = 1

-----------------------------------------------------------------------------
(* Properties of the gateway's login, requests and failures.               *)

SpecIs2xx(status) == status \in 200..299

\* Task t takes a step of request() from its API request on.
ApiStepOf(t) == gpc[t] = "api" /\ gcall'[t] # gcall[t]

\* C16: under session authentication a login is issued only by a request and
\* only when no token is cached, so none before the first request and none
\* once a token is cached; a request that finds no token issues the login
\* before any API request, the token the login gives is stored and sent with
\* the API request; a request that finds a token sends it without a login.
C16_LazyLoginAndCachedToken ==
    [][AuthMethod(config) = "session" =>
        \A t \in Tasks :
            /\ (gcall'[t].logins > gcall[t].logins \/ (gpc'[t] = "login" /\ gpc[t] # "login")) =>
                  /\ gpc[t] = "idle"
                  /\ session_token = "None"
            /\ (gpc[t] = "idle" /\ gpc'[t] # "idle" /\ session_token = "None") =>
                  /\ gpc'[t] = "login"
                  /\ gcall'[t].logins = 1
                  /\ gcall'[t].sends = 0
            /\ (gpc[t] = "login" /\ gpc'[t] = "api") =>
                  gsent'[t] = (IF session_token' = "None" THEN NoHeader
                               ELSE [auth |-> "session", value |-> session_token'])
            /\ (gpc[t] = "idle" /\ gpc'[t] # "idle" /\ session_token # "None") =>
                  /\ gpc'[t] = "api"
                  /\ gcall'[t].logins = 0
                  /\ gsent'[t] = [auth |-> "session", value |-> session_token]
                  /\ session_token' = session_token
    ]_vars

\* A token is cached, no login is in flight, and a request has sent its API
\* request with the cached token without a login of its own.
C16_Witness ==
    /\ AuthMethod(config) = "session"
    /\ session_token = "s1"
    /\ LoginsInFlight = {}
    /\ \E t \in Tasks :
          /\ gpc[t] = "api"
          /\ gcall[t].logins = 0
          /\ gcall[t].sends = 1
          /\ gsent[t] = [auth |-> "session", value |-> "s1"]

\* C17: a call of request() sends at most one API request and at most one
\* login, however it ends; when the API request is answered with a non-2xx
\* status, a rejected session token included, or the HTTP client raises, the
\* call ends there with a failure: the token is left as it is, no login and
\* no second API request follow.
C17_NoRetry ==
    [][\A t \in Tasks :
        /\ gcall'[t].sends <= 1
        /\ gcall'[t].logins <= 1
        /\ (ApiStepOf(t) /\ ~SpecIs2xx(gcall'[t].response.status)) =>
              /\ gpc'[t] = "done"
              /\ gout'[t].status = "raised"
              /\ session_token' = session_token
              /\ gcall'[t].sends = gcall[t].sends
              /\ gcall'[t].logins = gcall[t].logins
    ]_vars

\* A request logged in, sent its API request with the token and was answered
\* 401: it has failed after one login and one API request, and the token is
\* still the cached one.
C17_Witness ==
    /\ AuthMethod(config) = "session"
    /\ session_token = "s1"
    /\ \E t \in Tasks :
          /\ gpc[t] = "done"
          /\ gsent[t] = [auth |-> "session", value |-> "s1"]
          /\ gcall[t].response.status = 401
          /\ gcall[t].logins = 1
          /\ gcall[t].sends = 1
          /\ gout[t].status = "raised"
          /\ gout[t].error = "ApiError"

\* C18: for every response with a non-2xx status, whatever its body, the
\* call fails with the API error that carries the status code and the body,
\* and returns no value.
C18_NonSuccessRaisesApiError ==
    \A t \in Tasks :
        (gpc[t] = "done" /\ gcall[t].response # NoResponse
                        /\ ~SpecIs2xx(gcall[t].response.status)) =>
            gout[t] = [status |-> "raised", error |-> "ApiError",
                       code |-> gcall[t].response.status,
                       text |-> gcall[t].response.body]

SpecNamedFailures == {"ConnectTimeout", "ReadTimeout", "ConnectError"}

\* C19: request() returns a value only for a response with a 2xx status; a
\* connect timeout, a read timeout and a connection error each end the call
\* with a failure that names its kind and the URL of the request; no failure
\* of the HTTP client ends in a returned value.
C19_ValueOnly2xxFailuresRaised ==
    \A t \in Tasks :
        gpc[t] = "done" =>
            /\ gout[t].status \in {"returned", "raised"}
            /\ gout[t].status = "returned" =>
                  /\ gcall[t].failure = "none"
                  /\ SpecIs2xx(gcall[t].response.status)
            /\ gcall[t].failure \in SpecNamedFailures =>
                  /\ gout[t].status = "raised"
                  /\ gout[t].kind = gcall[t].failure
                  /\ gout[t].url = <<"METABASE_URL", "/api", gcall[t].path>>

\* One call returned the value of a 200 response while another, for /card,
\* met a read timeout and failed with that kind and the URL of /card.
C19_Witness ==
    \E t \in Tasks : \E u \in Tasks :
        /\ gpc[t] = "done" /\ gpc[u] = "done"
        /\ gcall[t].response.status = 200 /\ gout[t].status = "returned"
        /\ gcall[u].path = "/card" /\ gcall[u].failure = "ReadTimeout"
        /\ gout[u].status = "raised"
        /\ gout[u].kind = "ReadTimeout"
        /\ gout[u].url = <<"METABASE_URL", "/api", "/card">>

\* The environment has no API key and lacks the email or the password.
SpecMisconfigured == config.api_key = "None" /\ ~(config.email /\ config.password)

\* C20: without an API key and without a complete email and password pair
\* the process fails at startup: no client serves a request, no call of
\* request() takes place; and no request is ever the one to report a missing
\* credential.
C20_MisconfigurationFailsAtStartup ==
    /\ SpecMisconfigured => phase = "startup_failed"
    /\ phase = "startup_failed" => (SpecMisconfigured \/ ~config.url)
    /\ SpecMisconfigured =>
          \A t \in Tasks : gpc[t] = "idle" /\ gout[t] = NoResult /\ gcall[t] = NoCall
    /\ \A t \in Tasks : gout[t].status = "raised" => gout[t].error # "ValueError"

\* The environment has an email and no password and no API key: the startup
\* has failed.
C20_Witness ==
    /\ config = [url |-> TRUE, api_key |-> "None", email |-> TRUE, password |-> FALSE]
    /\ phase = "startup_failed"
    /\ \A t \in Tasks : gpc[t] = "idle"

-----------------------------------------------------------------------------
(* Failures of the discovery request.                                      *)

\* C21: when the GET /collection request fails, with a timeout, a connection
\* error, a non-2xx answer or anything else the gateway raises,
\* find_candidate_collections raises that failure to its caller and has
\* built no result; a returned result comes from a request that succeeded,
\* and a payload that is no list gives a result without collections.
C21_RequestFailureIsReraised ==
    fpc = "done" =>
        /\ flog \in GatewayFailures =>
              /\ fresult = [status |-> "raised", error |-> flog]
              /\ fmatched = <<>>
        /\ fresult.status = "returned" => flog = "ok"
        /\ (flog = "ok" /\ ~collections.isList) =>
              /\ fresult.status = "returned"
              /\ fresult.body.collections = <<>>
              /\ fresult.body.results.matched_collections = 0

\* The request of a call met a connect timeout while the upstream holds a
\* list of collections: the call has raised the timeout.
C21_Witness ==
    /\ fpc = "done"
    /\ flog = "ConnectTimeout"
    /\ collections.isList /\ Len(collections.items) > 0
    /\ fresult = [status |-> "raised", error |-> "ConnectTimeout"]

-----------------------------------------------------------------------------
(* Properties of list_cards_paginated.                                     *)

\* A slice index brought into 0..n the way a slice reads it.
SpecSliceIndex(k, n) ==
    IF k < 0 THEN (IF n + k < 0 THEN 0 ELSE n + k) ELSE (IF k > n THEN n ELSE k)

\* seq[a : b]
SpecSlice(seq, a, b) ==
    LET from == SpecSliceIndex(a, Len(seq))
        to == SpecSliceIndex(b, Len(seq))
    IN  IF to <= from THEN <<>> ELSE SubSeq(seq, from + 1, to)

\* C22: for a list payload list_cards_paginated returns the upstream list
\* sliced at [offset : offset + limit], in upstream order; returned is the
\* length of the slice, total_available the length of the upstream list and
\* has_more is offset + limit < total_available; a payload that is no list
\* is returned as it is.
C22_ListingAppliesPagination ==
    (lpc = "done" /\ lresult.status = "returned") =>
        IF cards.isList
        THEN LET page == SpecSlice(cards.items, largs.offset, largs.offset + largs.limit)
             IN  /\ lresult.body.cards = page
                 /\ lresult.body.pagination.returned = Len(page)
                 /\ lresult.body.pagination.total_available = Len(cards.items)
                 /\ lresult.body.pagination.has_more =
                        (largs.offset + largs.limit < Len(cards.items))
        ELSE lresult.body = cards

\* The upstream holds two cards; the call with limit 1 and offset 1 returned
\* the second one, total_available 2 and no more.
C22_Witness ==
    /\ lpc = "done" /\ lresult.status = "returned"
    /\ cards.isList /\ Len(cards.items) = 2
    /\ cards.items[1] # cards.items[2]
    /\ largs.limit = 1 /\ largs.offset = 1
    /\ lresult.body.cards = <<cards.items[2]>>
    /\ lresult.body.pagination.returned = 1
    /\ lresult.body.pagination.total_available = 2
    /\ ~lresult.body.pagination.has_more

-----------------------------------------------------------------------------
(* The requests of a search.                                               *)

\* The fetches of the call that have been issued and have not ended.
FetchesInFlight == Len(sreq) - Len(slog)

\* C23: a call of search_cards_in_collections issues one GET /card request
\* for each position of collection_ids, in order, duplicates included and
\* also after a failed fetch, len(collection_ids) in all when it ends; a
\* request is issued only when every earlier one has returned or failed, so
\* at most one is in flight.
C23_OneSequentialFetchPerId ==
    /\ \A i \in 1..Len(sreq) : sreq[i] = [method |-> "GET", path |-> "/card"]
    /\ FetchesInFlight \in {0, 1}
    /\ Len(sreq) <= Len(sargs.collection_ids)
    /\ spc = "fetching" => (FetchesInFlight = 1 /\ sidx = Len(sreq))
    /\ spc \in {"idle", "done"} => FetchesInFlight = 0
    /\ SearchDone =>
          /\ Len(sreq) = Len(sargs.collection_ids)
          /\ Len(slog) = Len(sargs.collection_ids)

\* A call for the ids 10, 10 has ended after two requests, the first of
\* which failed.
C23_Witness ==
    /\ SearchDone
    /\ sargs.collection_ids = <<"10", "10">>
    /\ slog = <<"failed", "ok">>
    /\ Len(sreq) = 2

-----------------------------------------------------------------------------
(* The credential of a request.                                            *)

\* The strategy the configuration asks for: the API key when there is one,
\* whatever else is configured, and the session token otherwise.
SpecStrategy == IF config.api_key # "None" THEN "api_key" ELSE "session"

\* C24: the strategy is the one the configuration fixes at construction, the
\* API key whenever one is configured and the session token otherwise, and
\* every API request sent carries exactly one credential, that of the
\* strategy: the API key, or a session token.
C24_ExactlyOneCredential ==
    \A t \in Tasks :
        gcall[t].sends > 0 =>
            IF SpecStrategy = "api_key"
            THEN gsent[t] = [auth |-> "api_key", value |-> config.api_key]
            ELSE /\ gsent[t].auth = "session"
                 /\ gsent[t].value \in {"s1", "s2"}

-----------------------------------------------------------------------------
(* Repeated collection ids.                                                *)

\* How often an id occurs in collection_ids.
TimesRequested(id) ==
    Cardinality({i \in 1..Len(sargs.collection_ids) : sargs.collection_ids[i] = id})

\* C25: nothing is de-duplicated: when all fetches succeed, an upstream card
\* that matches the query occurs in the match list before pagination as
\* often as its collection id occurs in collection_ids, k times for k
\* occurrences, and total_found counts every occurrence.
C25_NoDeduplication ==
    (SearchReturned /\ AllFetchesSucceeded /\ cards.isList) =>
        /\ \A j \in 1..Len(cards.items) :
              Occurrences(smatches, j) =
                  (IF SpecCardMatches(cards.items[j], sargs.query)
                   THEN TimesRequested(cards.items[j].collection_id)
                   ELSE 0)
        /\ sresult.body.pagination.total_found = Len(smatches)
        /\ sresult.body.pagination.total_found = Cardinality(SpecFetchedMatches)

\* Collection 10 was requested twice and both fetches succeeded: its one
\* matching card is in the match list twice and total_found is 2.
C25_Witness ==
    /\ SearchReturned /\ AllFetchesSucceeded /\ cards.isList
    /\ sargs.collection_ids = <<"10", "10">>
    /\ Cardinality(SpecCardsOf("10")) = 1
    /\ Len(smatches) = 2
    /\ smatches[1] = smatches[2]
    /\ sresult.body.pagination.total_found = 2

-----------------------------------------------------------------------------
(* The tools read, and keep nothing.                                       *)

\* Requests sent so far are reads of the two lists, the gateway is as it was
\* constructed, and a tool that is not being called holds nothing.
SpecToolsKeepNothing ==
    /\ \A i \in 1..Len(freq) : freq[i] = [method |-> "GET", path |-> "/collection"]
    /\ \A i \in 1..Len(sreq) : sreq[i] = [method |-> "GET", path |-> "/card"]
    /\ GatewayIdle
    /\ fpc = "idle" => FindIdle
    /\ spc = "idle" => SearchIdle

\* The matches a step has appended to all_matches.
SpecAppended == SubSeq(smatches', Len(smatches) + 1, Len(smatches'))

\* C26: find_candidate_collections issues only GET /collection and
\* search_cards_in_collections only GET /card; the state of the gateway
\* stays as it was constructed; between calls nothing of a call is left; and
\* what a call gives is made of the data the upstream answers during that
\* call, whatever it held before and however it changes meanwhile: the
\* collections matched and counted are those of the list the request of this
\* call was answered with, each fetch of a search adds the matching cards of
\* the list it was answered with, a failed fetch adds nothing, and the cards
\* returned are among those.
C26_ReadOnlyNothingKept ==
    [][/\ SpecToolsKeepNothing
       /\ (fpc = "fetching" /\ fpc' = "done" /\ flog' = "ok" /\ collections.isList) =>
             /\ Len(fmatched') = Cardinality(SpecObjectMatches)
             /\ \A i \in 1..Len(fmatched') :
                   /\ fmatched'[i].collection_id \in SpecObjectMatches
                   /\ fmatched'[i].collection_name =
                        collections.items[fmatched'[i].collection_id].name
             /\ fresult'.status = "returned" =>
                   fresult'.body.results.total_collections_searched = Len(collections.items)
       /\ (fpc = "fetching" /\ fpc' = "done" /\ flog' = "ok" /\ ~collections.isList) =>
             fresult'.body.collections = <<>>
       /\ (spc = "fetching" /\ slog' = Append(slog, "ok")) =>
             /\ smatches' = smatches \o SpecAppended
             /\ Len(SpecAppended) = Cardinality(SpecCardsOf(sargs.collection_ids[sidx]))
             /\ \A k \in 1..Len(SpecAppended) :
                   /\ SpecAppended[k].id \in SpecCardsOf(sargs.collection_ids[sidx])
                   /\ SpecAppended[k] = MatchedCard(cards.items[SpecAppended[k].id])
       /\ (spc = "fetching" /\ slog' = Append(slog, "failed")) => smatches' = smatches
       /\ (spc # "done" /\ spc' = "done" /\ sresult'.status = "returned") =>
             /\ sresult'.body.pagination.total_found = Len(smatches')
             /\ \A k \in 1..Len(sresult'.body.cards) :
                   \E m \in 1..Len(smatches') : sresult'.body.cards[k] = smatches'[m]
    ]_vars

\* The upstream data has changed while a search waited for its second
\* request: the search has returned the card of collection 10 the first
\* request was answered with and the card of collection 11 the second was
\* answered with, and no upstream list holds both.
C26_Witness ==
    /\ uchanged
    /\ fpc = "idle"
    /\ SearchReturned /\ AllFetchesSucceeded
    /\ Len(sreq) = 2
    /\ Len(smatches) = 2
    /\ smatches[1].collection_id = "10"
    /\ smatches[2].collection_id = "11"
    /\ sresult.body.pagination.total_found = 2

-----------------------------------------------------------------------------
(* Consecutive pages of one search.                                        *)

\* The response the handler gives for page k of the call's query and ids
\* when the page size is limit: offset is k * limit.
SpecPageBody(k, limit) ==
    SearchBody([sargs EXCEPT !.limit = limit, !.offset = k * limit], smatches)

\* The cards of pages 0..k, one after another.
RECURSIVE SpecPagesUpTo(_, _)
SpecPagesUpTo(k, limit) ==
    IF k < 0 THEN <<>>
    ELSE SpecPagesUpTo(k - 1, limit) \o SpecPageBody(k, limit).cards

\* The page that holds the last match of total matches.
SpecLastPage(total, limit) ==
    CHOOSE k \in 0..total : k * limit < total /\ total <= (k + 1) * limit

\* C27: for a limit above 0 and the query, ids and upstream data of a call,
\* the pages at offsets 0, limit, 2 * limit, ... put one after another are
\* the whole sorted match list, each page being the next limit matches of
\* it; has_more is set on every page before the one with the last match and
\* not on that page; a page at an offset of total_found or more has no card
\* and no has_more.  The response of a call is the page of its offset; the
\* pages that follow a call at offset 0 are those the handler gives for the
\* same matches at the following offsets.
C27_PagesPartitionTheMatches ==
    (SearchReturned /\ sargs.limit > 0) =>
        LET sorted == SortByUpdated(smatches)
            total == Len(sorted)
            limit == sargs.limit
        IN  /\ (sargs.offset >= 0 /\ sargs.offset % limit = 0)
                  => sresult.body = SpecPageBody(sargs.offset \div limit, limit)
            /\ sargs.offset = 0 =>
                  /\ SpecPagesUpTo(total, limit) = sorted
                  /\ \A k \in 0..total :
                        LET body == SpecPageBody(k, limit)
                        IN  /\ body.pagination.total_found = total
                            /\ body.cards = SpecSlice(sorted, k * limit, (k + 1) * limit)
                            /\ (total > 0 /\ k < SpecLastPage(total, limit))
                                  => body.pagination.has_more /\ Len(body.cards) = limit
                            /\ (total > 0 /\ k = SpecLastPage(total, limit))
                                  => ~body.pagination.has_more /\ body.cards # <<>>
                            /\ k * limit >= total
                                  => body.cards = <<>> /\ ~body.pagination.has_more

\* Four matches and a call for the first page of size 1: the page is the
\* first match of the sorted list and has_more is set; with the second, the
\* third and the fourth page it makes up the list, and the fourth page has
\* no has_more.
C27_Witness ==
    /\ SearchReturned
    /\ Len(smatches) = 4
    /\ sargs.limit = 1 /\ sargs.offset = 0
    /\ sresult.body.cards = <<SortByUpdated(smatches)[1]>>
    /\ sresult.body.pagination.has_more
    /\ sresult.body.cards \o SpecPageBody(1, 1).cards
         \o SpecPageBody(2, 1).cards \o SpecPageBody(3, 1).cards
         = SortByUpdated(smatches)
    /\ ~SpecPageBody(3, 1).pagination.has_more

-----------------------------------------------------------------------------
(* A login that is refused.                                                *)

\* C28: under session authentication a login answered with a status other
\* than 200 makes the gateway request raise; the step stores no token (the
\* cached token is left as it was, unset when no other request has logged
\* in), sends no API request and attaches no credential; and a request that
\* starts while the token is unset posts a login again before anything else.
C28_FailedLoginCachesNothing ==
    [][\A t \in Tasks :
        /\ (/\ gpc[t] = "login"
            /\ gcall'[t].login # NoResponse
            /\ gcall'[t].login.status # 200) =>
              /\ gpc'[t] = "done"
              /\ gout'[t].status = "raised"
              /\ session_token' = session_token
              /\ gcall'[t].sends = 0
              /\ gcall'[t].response = NoResponse
              /\ gsent'[t] = NoHeader
        /\ (/\ gpc[t] = "idle" /\ gpc'[t] # "idle"
            /\ AuthMethod(config) = "session"
            /\ session_token = "None") =>
              /\ gpc'[t] = "login"
              /\ gcall'[t].logins = 1
              /\ gcall'[t].sends = 0
    ]_vars

\* A login has been answered 401 and its request has raised "Authentication
\* failed" without an API request; the token is unset and another request is
\* at its login.
C28_Witness ==
    \E t, u \in Tasks :
        /\ t # u
        /\ AuthMethod(config) = "session"
        /\ gpc[t] = "done"
        /\ gcall[t].login.status = 401
        /\ gout[t] = [status |-> "raised", error |-> "AuthenticationFailed", code |-> 401]
        /\ gcall[t].sends = 0
        /\ session_token = "None"
        /\ gpc[u] = "login" /\ gcall[u].logins = 1

-----------------------------------------------------------------------------
(* The cached token.                                                       *)

\* C29: once a token is cached no step of the gateway clears or replaces
\* it, an API request answered with a rejection included; no request that
\* starts afterwards posts a login, and each sends the cached token.
C29_CachedTokenIsKept ==
    [][session_token # "None" =>
        /\ session_token' = session_token
        /\ \A t \in Tasks :
              (gpc[t] = "idle" /\ gpc'[t] # "idle") =>
                  /\ gpc'[t] = "api"
                  /\ gcall'[t].logins = 0
                  /\ gsent'[t] = [auth |-> "session", value |-> session_token]
    ]_vars

-----------------------------------------------------------------------------
(* The empty query.                                                        *)

\* A query that is empty or made of blanks only.
SpecBlank(query) == \A i \in 1..Len(query) : query[i] = " "

\* The ids find_candidate_collections has matched.
SpecMatchedIds == {fmatched[i].collection_id : i \in 1..Len(fmatched)}

\* The request of a find with a blank query is answered with a list.
SpecBlankFindAnswered ==
    /\ fpc = "fetching" /\ fpc' = "done" /\ flog' = "ok"
    /\ collections.isList
    /\ SpecBlank(fquery)

\* The upstream cards of the collection whose fetch is being answered.
SpecAllCardsOfFetched ==
    IF cards.isList
    THEN {j \in 1..Len(cards.items) :
            cards.items[j].collection_id = sargs.collection_ids[sidx]}
    ELSE {}

\* With a blank query each answered fetch of search_cards_in_collections
\* adds every card of the requested collection the answer holds.
SpecBlankSearchMatchesAll ==
    (spc = "fetching" /\ slog' = Append(slog, "ok") /\ SpecBlank(sargs.query)) =>
        /\ Len(smatches') - Len(smatches) = Cardinality(SpecAllCardsOfFetched)
        /\ \A j \in SpecAllCardsOfFetched :
              \E k \in (Len(smatches) + 1)..Len(smatches') : smatches'[k].id = j

\* C30 as stated: with a blank query find_candidate_collections matches
\* every entry of the upstream list that is not null, archived ones
\* included, and search_cards_in_collections every card of the requested
\* collections.
C30_BlankQueryMatchesEveryNonNull ==
    [][/\ SpecBlankFindAnswered =>
             /\ Len(fmatched') =
                   Cardinality({j \in 1..Len(collections.items) :
                                   collections.items[j] # NullEntry})
             /\ \A j \in 1..Len(collections.items) :
                   collections.items[j].kind = "obj" => j \in SpecMatchedIds'
       /\ SpecBlankSearchMatchesAll
    ]_vars

\* C30: with a blank query find_candidate_collections matches every
\* collection object of the upstream list, that is every entry that is
\* neither null nor the empty object, archived ones included, and nothing
\* else; search_cards_in_collections matches every card of the requested
\* collections.
C30_BlankQueryMatchesEveryObject ==
    [][/\ SpecBlankFindAnswered =>
             /\ SpecMatchedIds' =
                   {j \in 1..Len(collections.items) : collections.items[j].kind = "obj"}
             /\ Len(fmatched') = Cardinality(SpecMatchedIds')
       /\ SpecBlankSearchMatchesAll
    ]_vars

\* A query of one blank has matched the one collection it was answered
\* with, the archived collection "B", whose name and description hold no
\* blank.
C30_Witness ==
    /\ FindReturned
    /\ fquery = <<" ">>
    /\ Len(fmatched) = 1
    /\ fmatched[1].collection_name = <<"B">>
    /\ fresult.body.results.total_collections_searched = 1
    /\ fresult.body.results.matched_collections = 1

====
